---- MODULE Spec2Model ----
(***************************************************************************)
(* Model of the gesture pipeline of mayday-2:                              *)
(*   - GestureController.runDetection (src/App.tsx 419-622): throttle,     *)
(*     smoothing windows, openness latch, pinch debounce, miss handling;   *)
(*   - App.handleGesture and the manual controls (src/App.tsx 7-149): the  *)
(*     interaction state machine over targetMix / isSignatureOpen /        *)
(*     isGestureHeld;                                                      *)
(*   - the useFrame callbacks of Ornaments, PhotoFrameMesh and GiftBoxMesh *)
(*     (src/unnamed/part_001 187-191, 317-321, 549-582): the eased mix of  *)
(*     every component and the closest photo index published to App;       *)
(*   - the layout of a population (src/unnamed/part_001 443-521).          *)
(* Distances and ratios are integers in hundredths (1.6 is 160), mixes and *)
(* interpolation factors in thousandths (1.0 is 1000), times in ms.        *)
(***************************************************************************)
EXTENDS Integers, Sequences, FiniteSets, TLC

VARIABLES
    \* GestureController refs (src/App.tsx 425-435)
    lastDetectionTime, ratioHistory, posHistory, isCurrentlyOpen,
    pinchHistory, missedFrames,
    \* detection loop: the clock read by Date.now(), the position of the
    \* runDetection chain, and the timestamp of the call being awaited
    now, pc,
    \* App state (src/App.tsx 9-30)
    targetMix, isSignatureOpen, isGestureHeld, userImages, activePhotoUrl,
    isProcessing, closestPhotoRef, inputRef,
    \* timers of handleFileChange still pending, and uploads made so far
    timers, uploads,
    \* currentMixRef of every component that has one (part_001 145, 288, 412)
    currentMix,
    \* the data of one Ornaments instance (useMemo, part_001 443-521) with the
    \* type and count it was generated for, and the data it replaced
    ornamentData, dataBefore,
    \* GestureController and its surroundings: whether the component is mounted,
    \* the handpose model (model / loading, App.tsx 331-332), the webcam video,
    \* the visibility of the document, and the restart timeouts of
    \* handleVisibility still pending
    mounted, modelState, video, visible, restartTimers,
    \* requestAnimationFrame(runDetection) requests not yet run, estimateHands
    \* calls not yet settled, whether the request pending is the one whose id
    \* the effect keeps for its cleanup, and whether the camera has been
    \* restarted since the last classification began
    requests, inflight, timerLive, gap,
    \* state updates that handleGesture has queued and React has not committed
    pending,
    \* history variables: what the last detection step did and emitted, and
    \* what the last state-machine step was and the state it started from,
    \* and how far the events processed so far follow pinch, release, open,
    \* and what the last observed render tick saw
    out, smLast, scenario, frame

stabVars == <<lastDetectionTime, ratioHistory, posHistory, isCurrentlyOpen,
              pinchHistory, missedFrames>>
loopVars == <<now, pc>>
appVars == <<targetMix, isSignatureOpen, isGestureHeld, userImages,
             activePhotoUrl, isProcessing, inputRef>>
uploadVars == <<timers, uploads>>
hist == <<smLast, scenario>>
genVars == <<ornamentData, dataBefore>>
renderVars == <<currentMix, frame, genVars>>
envVars == <<mounted, modelState, video, visible, restartTimers>>
chainVars == <<requests, inflight, timerLive, gap>>
lifeVars == <<envVars, chainVars, pending>>
vars == <<stabVars, loopVars, appVars, closestPhotoRef, uploadVars, out, hist,
          renderVars, lifeVars>>

----------------------------------------------------------------------------
(* Bounds of the model *)

\* Date.now() when the component mounts, and the last clock value explored
StartTime == 1000
MaxTime == 2200
\* the last clock value explored when throttled invocations are interleaved
MaxThrottleTime == 1760
\* the miss counter is never reset by the loss branch; misses stop here
MaxMissed == 7
\* uploads explored, files per upload, photo ornaments in the scene
MaxUploads == 1
MaxFiles == 2
PhotoCount == 2
\* render time with an unchanged target is summed up to here
SettleCap == 3000
\* the largest population generated
MaxCount == 2
\* the clock up to which a mounted detection loop is followed
LifeTime == 1480
\* restart timeouts of handleVisibility pending at one time
MaxRestarts == 1
\* batches of state updates queued and not yet committed
MaxPending == 2

(* Program constants *)
ThrottleMs == 100
PosCap == 8
RatioCap == 5
PinchCap == 3
OpenThreshold == 160
CloseThreshold == 120
PinchThreshold == 25
MissGrace == 5
VideoWidth == 320
VideoHeight == 240
CHAOS == 0
FORMED == 1
SliceMax == 30
Infinity == 1000000
\* Math.PI * (3 - Math.sqrt(5)) and Math.PI * 2, in thousandths of a radian
GoldenAngle == 2400
TwoPi == 6283
TreeHeight == 18
\* treeRadiusBase 7.5, in tenths
TreeRadiusBase == 75
ApexY == 9
ChaosRadius == 18
ChaosHeightRange == 12
\* randomVector3(25)
ScatterRadius == 25

Null == "null"
Undefined == "undefined"

----------------------------------------------------------------------------
(* Pure helpers of runDetection *)

RECURSIVE SumSeq(_)
SumSeq(s) == IF s = <<>> THEN 0 ELSE Head(s) + SumSeq(Tail(s))

RECURSIVE CountTrue(_)
CountTrue(s) ==
    IF s = <<>> THEN 0
    ELSE (IF Head(s) THEN 1 ELSE 0) + CountTrue(Tail(s))

\* a push that pops the newest entry where the code shifts the oldest out
PushCappedPop(h, x, cap) ==
    IF Len(h) >= cap THEN Append(SubSeq(h, 1, cap - 1), x) ELSE Append(h, x)

\* history.push(x); if (history.length > cap) history.shift()
PushCapped(h, x, cap) ==
    LET p == Append(h, x) IN IF Len(p) > cap THEN Tail(p) ELSE p

\* the throttle comparing against 10 ms
ThrottledTenth(t, last) == t - last < 10

\* now - lastDetectionTime.current < 100
Throttled(t, last) == t - last < ThrottleMs

\* rawX = -1 * ((wrist[0] / videoWidth) * 2 - 1), in hundredths
RawCoord(w, size) == -1 * (((w * 200) \div size) - 100)

\* avgTipDist / (avgBaseDist || 1), in hundredths
RawRatio(tip, base) == (tip * 100) \div (IF base = 0 THEN 1 ELSE base)

\* pinchDist / (palmScale || 1) < 0.25
IsPinchFrame(pinchDist, palmScale) ==
    (pinchDist * 100) \div (IF palmScale = 0 THEN 1 ELSE palmScale) < PinchThreshold

\* the comparison with the threshold itself included
SmoothedAtLeast(h, thr) == SumSeq(h) >= thr * Len(h)

\* smoothedRatio > 1.6, the mean compared without dividing
SmoothedAbove(h, thr) == SumSeq(h) > thr * Len(h)
SmoothedBelow(h, thr) == SumSeq(h) < thr * Len(h)

\* a latch with the single threshold 1.6 and no dead zone
NextLatchSingleThreshold(open, h) == SmoothedAbove(h, OpenThreshold)

\* the hysteresis latch, App.tsx 560-564
NextLatch(open, h) ==
    IF ~open /\ SmoothedAbove(h, OpenThreshold) THEN TRUE
    ELSE IF open /\ SmoothedBelow(h, CloseThreshold) THEN FALSE
    ELSE open

\* a debounce satisfied by one pinch frame
PinchAny(h) == CountTrue(h) >= 1

\* pinchHistory.current.filter(Boolean).length >= 2
PinchMajority(h) == CountTrue(h) >= 2

\* the mean of the position window, truncated to hundredths
AvgPos(h) ==
    [x |-> SumSeq([i \in 1..Len(h) |-> h[i].x]) \div Len(h),
     y |-> SumSeq([i \in 1..Len(h) |-> h[i].y]) \div Len(h)]

\* a lost event that still carries the last pinch vote
LostEventPinching ==
    [isOpen |-> FALSE, isPinch |-> TRUE, position |-> [x |-> 0, y |-> 0],
     isDetected |-> FALSE]

\* { isOpen: false, isPinch: false, position: {x:0, y:0}, isDetected: false },
\* App.tsx 606
LostEvent ==
    [isOpen |-> FALSE, isPinch |-> FALSE, position |-> [x |-> 0, y |-> 0],
     isDetected |-> FALSE]

----------------------------------------------------------------------------
(* The interaction state machine: App.handleGesture, src/App.tsx 36-100.   *)
(* cl holds the values the callback closed over (its dependency list),     *)
(* prev the committed targetMix seen by the functional updater, idx the    *)
(* value of closestPhotoRef.current.  The result lists the setters called. *)

\* a lookup that ignores the index
ImageAtFirst(imgs, idx) == IF imgs # <<>> THEN imgs[1] ELSE Undefined

ImageAt(imgs, idx) ==
    IF idx + 1 \in DOMAIN imgs THEN imgs[idx + 1] ELSE Undefined

\* inputRef.current after the position-tracking block, App.tsx 38-46
TrackInput(ref, data) ==
    IF data.isDetected
    THEN [x |-> (data.position.x * 12) \div 10, y |-> data.position.y,
          isDetected |-> TRUE]
    ELSE [ref EXCEPT !.isDetected = FALSE]

\* the pinch guard without the CHAOS test
PinchAllowedAlways(cl) == TRUE

\* if (targetMix === 0 || isGestureHeld), App.tsx 54
PinchAllowed(cl) == cl.targetMix = CHAOS \/ cl.isGestureHeld

\* if (index >= 0 && userImages.length > 0), App.tsx 63
PhotoAvailable(cl, idx) == idx >= 0 /\ Len(cl.userImages) > 0

\* the target with the two modes swapped
NewTargetSwapped(data) == IF data.isOpen THEN FORMED ELSE CHAOS

\* const newTarget = data.isOpen ? 0 : 1, App.tsx 93
NewTarget(data) == IF data.isOpen THEN CHAOS ELSE FORMED

\* tree control that can scatter the tree but never forms it again
TreeControlOpenOnly(cl, keep, data) ==
    IF ~cl.isSignatureOpen /\ data.isOpen
    THEN [keep EXCEPT !.targetMix = CHAOS,
                      !.calls = keep.calls \cup {"setTargetMix"}]
    ELSE keep

\* tree control without its test of the overlay
TreeControlUnguarded(cl, keep, data) ==
    [keep EXCEPT !.targetMix = NewTarget(data),
                 !.calls = keep.calls \cup {"setTargetMix"}]

\* tree control that ignores the event of a lost hand
TreeControlDetected(cl, keep, data) ==
    IF ~cl.isSignatureOpen /\ data.isDetected
    THEN [keep EXCEPT !.targetMix = NewTarget(data),
                      !.calls = keep.calls \cup {"setTargetMix"}]
    ELSE keep

\* PRIORITY 3, App.tsx 92-98: tree control while no overlay is shown
TreeControl(cl, keep, data) ==
    IF ~cl.isSignatureOpen
    THEN [keep EXCEPT !.targetMix = NewTarget(data),
                      !.calls = keep.calls \cup {"setTargetMix"}]
    ELSE keep

\* the pinch branch without its return: tree control runs after it
PinchBranchNoReturn(cl, keep, idx, data) ==
    TreeControl(cl,
                IF (cl.targetMix = CHAOS \/ cl.isGestureHeld)
                   /\ ~cl.isSignatureOpen /\ ~cl.isGestureHeld
                   /\ idx >= 0 /\ Len(cl.userImages) > 0
                THEN [keep EXCEPT !.isSignatureOpen = TRUE, !.isGestureHeld = TRUE,
                                  !.photo = cl.userImages[idx + 1],
                                  !.calls = {"setActivePhotoUrl", "setIsSignatureOpen",
                                             "setIsGestureHeld"}]
                ELSE keep,
                data)

\* PRIORITY 1, App.tsx 51-76: the pinch branch, which always returns
PinchBranch(cl, keep, idx, data) ==
    IF PinchAllowed(cl)
       /\ (~cl.isSignatureOpen \/ cl.isGestureHeld)
       /\ ~cl.isGestureHeld
       /\ PhotoAvailable(cl, idx)
    THEN [keep EXCEPT !.isSignatureOpen = TRUE, !.isGestureHeld = TRUE,
                      !.photo = ImageAt(cl.userImages, idx),
                      !.calls = {"setActivePhotoUrl", "setIsSignatureOpen",
                                 "setIsGestureHeld"}]
    ELSE keep

\* the release branch without its return: tree control runs after it
ReleaseNoReturn(cl, keep, data) ==
    TreeControl(cl,
                [keep EXCEPT !.isSignatureOpen = FALSE, !.isGestureHeld = FALSE,
                             !.calls = {"setIsSignatureOpen", "setIsGestureHeld"}],
                data)

\* PRIORITY 2, App.tsx 79-87: release of a gesture hold, which returns
ReleaseBranch(cl, keep, data) ==
    [keep EXCEPT !.isSignatureOpen = FALSE, !.isGestureHeld = FALSE,
                 !.calls = {"setIsSignatureOpen", "setIsGestureHeld"}]

HandleGesture(cl, prev, idx, data) ==
    LET keep == [targetMix |-> prev, isSignatureOpen |-> cl.isSignatureOpen,
                 isGestureHeld |-> cl.isGestureHeld, calls |-> {},
                 photo |-> Null]
    IN
    IF data.isPinch THEN PinchBranch(cl, keep, idx, data)
    ELSE IF cl.isGestureHeld THEN ReleaseBranch(cl, keep, data)
    ELSE TreeControl(cl, keep, data)

\* the values the current handleGesture closure holds
Closure ==
    [targetMix |-> targetMix, isSignatureOpen |-> isSignatureOpen,
     isGestureHeld |-> isGestureHeld, userImages |-> userImages]

InteractionState ==
    [targetMix |-> targetMix, isSignatureOpen |-> isSignatureOpen,
     isGestureHeld |-> isGestureHeld]

\* progress of the event sequence [pinch], [no pinch], [no pinch, open] that
\* starts with the tree in CHAOS, the overlay closed and no gesture hold
Follow(sc, data) ==
    IF sc.stage = 1 /\ ~data.isPinch THEN [sc EXCEPT !.stage = 2]
    ELSE IF sc.stage = 2 /\ ~data.isPinch /\ data.isOpen THEN [sc EXCEPT !.stage = 3]
    ELSE IF data.isPinch /\ targetMix = CHAOS /\ ~isSignatureOpen /\ ~isGestureHeld
    THEN [stage |-> 1, photo |-> PhotoAvailable([userImages |-> userImages],
                                                closestPhotoRef)]
    ELSE [stage |-> 0, photo |-> FALSE]

NoScenario == [stage |-> 0, photo |-> FALSE]

\* onGestureRef.current(data): the callback runs and React commits its updates
OnGesture(data) ==
    LET r == HandleGesture(Closure, targetMix, closestPhotoRef, data) IN
    /\ inputRef' = TrackInput(inputRef, data)
    /\ targetMix' = r.targetMix
    /\ isSignatureOpen' = r.isSignatureOpen
    /\ isGestureHeld' = r.isGestureHeld
    /\ activePhotoUrl' =
          IF "setActivePhotoUrl" \in r.calls THEN r.photo ELSE activePhotoUrl
    /\ smLast' = [kind |-> "gesture", ev |-> data, pre |-> InteractionState,
                  idx |-> closestPhotoRef, calls |-> r.calls]
    /\ scenario' = Follow(scenario, data)
    /\ UNCHANGED <<userImages, isProcessing>>

----------------------------------------------------------------------------
(* The detection loop: GestureController.runDetection, src/App.tsx 493-615 *)

\* a step of the loop that calls onGesture zero times
\* (run: the ticks without a prediction since the last hand that was read)
Quiet(step) ==
    [step |-> step, n |-> 0, ev |-> LostEvent, full |-> {}, run |-> out.run]

\* the windows that are at capacity, so that the next push shifts one entry out
FullWindows ==
    {w \in {"pos", "ratio", "pinch"} :
        \/ w = "pos" /\ Len(posHistory) = PosCap
        \/ w = "ratio" /\ Len(ratioHistory) = RatioCap
        \/ w = "pinch" /\ Len(pinchHistory) = PinchCap}

\* a catch block that rethrows, so that line 614 is not reached
RequestsNoneAfterError(step) == IF step \in {"error", "threw"} THEN 0 ELSE 1

\* a path that calls requestAnimationFrame(runDetection) twice
RequestsTwice(step) == IF step = "nowrist" THEN 2 ELSE 1

\* the requestAnimationFrame(runDetection) calls an invocation makes on the
\* path it takes: App.tsx 498 (throttled), 506 (zero size), 521 (no wrist),
\* 614 (every other path); each path that requests early also returns
Requests(step) == 1

\* an invocation ends without awaiting: the request that started it is used
\* up and the path makes its own
Rescheduled(step) ==
    /\ requests' = requests - 1 + Requests(step)
    /\ timerLive' = FALSE
    /\ UNCHANGED <<inflight, gap>>

\* an invocation reaches `await model.estimateHands(video)`
Awaits ==
    /\ requests' = requests - 1
    /\ inflight' = inflight + 1
    /\ timerLive' = FALSE
    /\ gap' = FALSE

\* the awaited call settles and the rest of the invocation runs
Settled(step) ==
    /\ inflight' = inflight - 1
    /\ requests' = requests + Requests(step)
    /\ UNCHANGED <<timerLive, gap>>

\* the synchronous part of one invocation, up to `await model.estimateHands`
RunDetection(d, ready, sized, horizon) ==
    /\ pc = "scheduled"
    /\ now + d <= horizon
    /\ now' = now + d
    /\ UNCHANGED <<ratioHistory, posHistory, isCurrentlyOpen, pinchHistory,
                   missedFrames, appVars, closestPhotoRef, uploadVars, hist,
                   renderVars, envVars, pending>>
    /\ IF ~ready THEN
          /\ out' = Quiet("notready")
          /\ Rescheduled("notready")
          /\ UNCHANGED <<lastDetectionTime, pc>>
       ELSE IF Throttled(now', lastDetectionTime) THEN
          /\ out' = Quiet("throttled")
          /\ Rescheduled("throttled")
          /\ UNCHANGED <<lastDetectionTime, pc>>
       ELSE
          /\ lastDetectionTime' = now'
          /\ IF ~sized
             THEN /\ out' = Quiet("zerosize")
                  /\ Rescheduled("zerosize")
                  /\ pc' = pc
             ELSE /\ out' = Quiet("estimating")
                  /\ Awaits
                  /\ pc' = "awaiting"

\* a counter that a prediction leaves as it is
AfterPredictionKeep(missed) == missed

\* missedFrames.current = 0, App.tsx 514
AfterPrediction(missed) == 0

\* predictions.length > 0 with a wrist landmark, App.tsx 513-597
HandRead(hand) ==
    /\ pc = "awaiting"
    /\ pc' = "scheduled"
    /\ missedFrames' = AfterPrediction(missedFrames)
    /\ LET raw == [x |-> RawCoord(hand.wx, VideoWidth),
                   y |-> RawCoord(hand.wy, VideoHeight)]
           ph == PushCapped(posHistory, raw, PosCap)
           rh == PushCapped(ratioHistory, RawRatio(hand.tip, hand.base), RatioCap)
           open == NextLatch(isCurrentlyOpen, rh)
           vh == PushCapped(pinchHistory,
                            IsPinchFrame(hand.pinchDist, hand.palm), PinchCap)
           data == [isOpen |-> open, isPinch |-> PinchMajority(vh),
                    position |-> AvgPos(ph), isDetected |-> TRUE]
       IN /\ posHistory' = ph
          /\ ratioHistory' = rh
          /\ isCurrentlyOpen' = open
          /\ pinchHistory' = vh
          /\ out' = [step |-> "hand", n |-> 1, ev |-> data, full |-> FullWindows,
                     run |-> 0]
          /\ OnGesture(data)
    /\ Settled("hand")
    /\ UNCHANGED <<lastDetectionTime, now, closestPhotoRef, uploadVars,
                   renderVars, envVars, pending>>

\* predictions[0].landmarks[0] is missing, App.tsx 514-523
NoWrist ==
    /\ pc = "awaiting"
    /\ pc' = "scheduled"
    /\ missedFrames' = AfterPrediction(missedFrames)
    /\ out' = Quiet("nowrist")
    /\ Settled("nowrist")
    /\ UNCHANGED <<lastDetectionTime, ratioHistory, posHistory, isCurrentlyOpen,
                   pinchHistory, now, appVars, closestPhotoRef, uploadVars, hist,
                   renderVars, envVars, pending>>

\* the grace test off by one
GraceExceededEarly(missed) == missed >= MissGrace

\* a grace test that passes on the first tick past the grace only
GraceExceededOnce(missed) == missed = MissGrace + 1

\* if (missedFrames.current > 5), App.tsx 600
GraceExceeded(missed) == missed > MissGrace

\* predictions.length === 0, App.tsx 598-609
Miss ==
    /\ pc = "awaiting"
    /\ missedFrames < MaxMissed
    /\ pc' = "scheduled"
    /\ missedFrames' = missedFrames + 1
    /\ IF GraceExceeded(missedFrames')
       THEN /\ isCurrentlyOpen' = FALSE
            /\ ratioHistory' = <<>>
            /\ posHistory' = <<>>
            /\ out' = [step |-> "lost", n |-> 1, ev |-> LostEvent, full |-> {},
                       run |-> out.run + 1]
            /\ OnGesture(LostEvent)
       ELSE /\ out' = [Quiet("miss") EXCEPT !.run = out.run + 1]
            /\ UNCHANGED <<isCurrentlyOpen, ratioHistory, posHistory, appVars,
                           hist>>
    /\ Settled("miss")
    /\ UNCHANGED <<lastDetectionTime, pinchHistory, now, closestPhotoRef,
                   uploadVars, renderVars, envVars, pending>>

\* model.estimateHands rejects: catch (err) {}, App.tsx 610-612
EstimateThrows ==
    /\ pc = "awaiting"
    /\ pc' = "scheduled"
    /\ out' = Quiet("error")
    /\ Settled("error")
    /\ UNCHANGED <<stabVars, now, appVars, closestPhotoRef, uploadVars, hist,
                   renderVars, envVars, pending>>

\* a hand is read and onGestureRef.current throws: the stabilizer refs are
\* already written (App.tsx 514-588), the exception is caught at App.tsx
\* 610-612 like one of estimateHands
CallbackThrows(hand) ==
    /\ pc = "awaiting"
    /\ pc' = "scheduled"
    /\ missedFrames' = AfterPrediction(missedFrames)
    /\ LET raw == [x |-> RawCoord(hand.wx, VideoWidth),
                   y |-> RawCoord(hand.wy, VideoHeight)]
           ph == PushCapped(posHistory, raw, PosCap)
           rh == PushCapped(ratioHistory, RawRatio(hand.tip, hand.base), RatioCap)
           open == NextLatch(isCurrentlyOpen, rh)
           vh == PushCapped(pinchHistory,
                            IsPinchFrame(hand.pinchDist, hand.palm), PinchCap)
           data == [isOpen |-> open, isPinch |-> PinchMajority(vh),
                    position |-> AvgPos(ph), isDetected |-> TRUE]
       IN /\ posHistory' = ph
          /\ ratioHistory' = rh
          /\ isCurrentlyOpen' = open
          /\ pinchHistory' = vh
          /\ out' = [step |-> "threw", n |-> 1, ev |-> data, full |-> FullWindows,
                     run |-> 0]
    /\ Settled("threw")
    /\ UNCHANGED <<lastDetectionTime, now, appVars, closestPhotoRef, uploadVars,
                   hist, renderVars, envVars, pending>>

----------------------------------------------------------------------------
(* The surroundings of the detection loop: model load, camera, document    *)
(* visibility and unmount, src/App.tsx 437-490, 617-622, 645-660.          *)

\* the condition of App.tsx 494: model, webcamRef.current (null once the
\* Webcam element is unmounted), its video, and readyState 4
Ready == mounted /\ modelState = "loaded" /\ video = "ready"

\* handpose.load() resolves: setModel(net); setLoading(false) (App.tsx
\* 464-467), and the effect of App.tsx 617-622 makes the first request
ModelLoaded ==
    /\ mounted
    /\ modelState = "loading"
    /\ modelState' = "loaded"
    /\ pc' = "scheduled"
    /\ requests' = 1
    /\ timerLive' = TRUE
    /\ UNCHANGED <<stabVars, now, appVars, closestPhotoRef, uploadVars, out,
                   hist, renderVars, mounted, video, visible, restartTimers,
                   inflight, gap, pending>>

\* loading the model fails: setLoading(false) with model still null
\* (App.tsx 469-475); the effect of App.tsx 617 requests nothing
ModelFails ==
    /\ mounted
    /\ modelState = "loading"
    /\ modelState' = "failed"
    /\ UNCHANGED <<stabVars, loopVars, appVars, closestPhotoRef, uploadVars,
                   out, hist, renderVars, mounted, video, visible,
                   restartTimers, chainVars, pending>>

\* cancelAnimationFrame(timer), App.tsx 620: timer is the id of the request
\* the effect made, so the cleanup cancels that request and no later one
Cancels(live) == live

\* GestureController unmounts: the cleanups of its effects run and
\* webcamRef.current becomes null
Teardown ==
    /\ mounted
    /\ mounted' = FALSE
    /\ IF requests = 1 /\ Cancels(timerLive)
       THEN /\ requests' = 0
            /\ pc' = "stopped"
            /\ timerLive' = FALSE
       ELSE UNCHANGED <<requests, pc, timerLive>>
    /\ UNCHANGED <<stabVars, now, appVars, closestPhotoRef, uploadVars, out,
                   hist, renderVars, modelState, video, visible, restartTimers,
                   inflight, gap, pending>>

\* the document is hidden: the browser stops running animation frames
Hide ==
    /\ visible
    /\ visible' = FALSE
    /\ UNCHANGED <<stabVars, loopVars, appVars, closestPhotoRef, uploadVars,
                   out, hist, renderVars, mounted, modelState, video,
                   restartTimers, chainVars, pending>>

\* the document is shown again: handleVisibility starts its timeout of
\* 500 ms (App.tsx 439-446) if the listener is still attached
Show ==
    /\ ~visible
    /\ restartTimers < MaxRestarts
    /\ visible' = TRUE
    /\ restartTimers' = IF mounted THEN restartTimers + 1 ELSE restartTimers
    /\ UNCHANGED <<stabVars, loopVars, appVars, closestPhotoRef, uploadVars,
                   out, hist, renderVars, mounted, modelState, video,
                   chainVars, pending>>

\* the timeout of handleVisibility fires: setCameraKey(prev => prev + 1);
\* setCameraError(false) (App.tsx 441-444) mounts a new Webcam element
RestartFires ==
    /\ restartTimers > 0
    /\ restartTimers' = restartTimers - 1
    /\ IF mounted
       THEN video' = "starting" /\ gap' = TRUE
       ELSE UNCHANGED <<video, gap>>
    /\ UNCHANGED <<stabVars, loopVars, appVars, closestPhotoRef, uploadVars,
                   out, hist, renderVars, mounted, modelState, visible,
                   requests, inflight, timerLive, pending>>

\* onUserMediaError={() => setCameraError(true)}: the Webcam element is
\* replaced by the error panel
CameraError ==
    /\ mounted
    /\ video # "error"
    /\ video' = "error"
    /\ gap' = TRUE
    /\ UNCHANGED <<stabVars, loopVars, appVars, closestPhotoRef, uploadVars,
                   out, hist, renderVars, mounted, modelState, visible,
                   restartTimers, requests, inflight, timerLive, pending>>

\* the video of the Webcam element reaches readyState 4
VideoLoaded ==
    /\ mounted
    /\ video = "starting"
    /\ video' = "ready"
    /\ UNCHANGED <<stabVars, loopVars, appVars, closestPhotoRef, uploadVars,
                   out, hist, renderVars, mounted, modelState, visible,
                   restartTimers, chainVars, pending>>

\* runDetection is invoked after the unmount: the condition of App.tsx 494
\* is false (webcamRef.current is null) and control goes to App.tsx 614
DetachedFrame ==
    /\ ~mounted
    /\ visible
    /\ pc = "scheduled"
    /\ pc' = "running"
    /\ requests' = requests - 1
    /\ timerLive' = FALSE
    /\ UNCHANGED <<stabVars, now, appVars, closestPhotoRef, uploadVars, out,
                   hist, renderVars, envVars, inflight, gap, pending>>

\* requestAnimationFrame(runDetection), App.tsx 614, of that invocation
DetachedReschedule ==
    /\ pc = "running"
    /\ pc' = "scheduled"
    /\ requests' = requests + Requests("notready")
    /\ UNCHANGED <<stabVars, now, appVars, closestPhotoRef, uploadVars, out,
                   hist, renderVars, envVars, inflight, timerLive, gap,
                   pending>>

----------------------------------------------------------------------------
(* Manual controls and the upload timers, src/App.tsx 102-149, 239-295.    *)
(* The control bar carries both pointer-events-auto and, while the overlay *)
(* is open or an upload is processed, pointer-events-none, so its buttons  *)
(* are not taken to be disabled in any state.                              *)

NoPre == [targetMix |-> FORMED, isSignatureOpen |-> FALSE, isGestureHeld |-> FALSE]

Manual(kind) ==
    [kind |-> kind, ev |-> LostEvent, pre |-> NoPre, idx |-> -1, calls |-> {}]

\* toggleState, App.tsx 102-104
ToggleTarget(prev) == IF prev = FORMED THEN CHAOS ELSE FORMED

ToggleState ==
    /\ targetMix' = ToggleTarget(targetMix)
    /\ smLast' = Manual("toggle")
    /\ scenario' = NoScenario
    /\ UNCHANGED <<isSignatureOpen, isGestureHeld, userImages, activePhotoUrl,
                   isProcessing, inputRef, stabVars, loopVars, closestPhotoRef,
                   uploadVars, out, renderVars, lifeVars>>

\* handleSignatureClick, App.tsx 110-121; r is Math.floor(Math.random() * length)
HandleSignatureClick(r) ==
    /\ r \in 0..(IF Len(userImages) > 0 THEN Len(userImages) - 1 ELSE 0)
    /\ isGestureHeld' = FALSE
    /\ activePhotoUrl' = IF Len(userImages) > 0 THEN ImageAt(userImages, r) ELSE Null
    /\ isSignatureOpen' = TRUE
    /\ smLast' = Manual("signature")
    /\ scenario' = NoScenario
    /\ UNCHANGED <<targetMix, userImages, isProcessing, inputRef, stabVars,
                   loopVars, closestPhotoRef, uploadVars, out, renderVars, lifeVars>>

\* the overlay's close and done buttons, App.tsx 240 and 274
CloseOverlay ==
    /\ isSignatureOpen
    /\ isSignatureOpen' = FALSE
    /\ smLast' = Manual("close")
    /\ scenario' = NoScenario
    /\ UNCHANGED <<targetMix, isGestureHeld, userImages, activePhotoUrl,
                   isProcessing, inputRef, stabVars, loopVars, closestPhotoRef,
                   uploadVars, out, renderVars, lifeVars>>

Min(a, b) == IF a < b THEN a ELSE b

\* files.slice(0, 30).map(createObjectURL): the urls of upload u
NewUrls(u, n) == [i \in 1..Min(n, SliceMax) |-> <<u, i>>]

\* handleFileChange with n > 0 files, App.tsx 123-127
HandleFileChange(n) ==
    /\ n > 0
    /\ uploads < MaxUploads
    /\ uploads' = uploads + 1
    /\ isProcessing' = TRUE
    /\ targetMix' = CHAOS
    /\ timers' = timers \cup {[id |-> uploads + 1, stage |-> 50, n |-> n]}
    /\ smLast' = Manual("upload")
    /\ scenario' = NoScenario
    /\ UNCHANGED <<isSignatureOpen, isGestureHeld, userImages, activePhotoUrl,
                   inputRef, stabVars, loopVars, closestPhotoRef, out, renderVars, lifeVars>>

\* the three nested setTimeout callbacks, App.tsx 128-147
TimerFires(t) ==
    /\ t \in timers
    /\ smLast' = Manual("timer")
    /\ scenario' = NoScenario
    /\ UNCHANGED <<isSignatureOpen, isGestureHeld, activePhotoUrl, inputRef,
                   stabVars, loopVars, closestPhotoRef, uploads, out, renderVars, lifeVars>>
    /\ IF t.stage = 50 THEN
          /\ userImages' = NewUrls(t.id, t.n)
          /\ timers' = (timers \ {t}) \cup {[t EXCEPT !.stage = 1200]}
          /\ UNCHANGED <<isProcessing, targetMix>>
       ELSE IF t.stage = 1200 THEN
          /\ isProcessing' = FALSE
          /\ timers' = (timers \ {t}) \cup {[t EXCEPT !.stage = 800]}
          /\ UNCHANGED <<userImages, targetMix>>
       ELSE
          /\ targetMix' = FORMED
          /\ timers' = timers \ {t}
          /\ UNCHANGED <<userImages, isProcessing>>

----------------------------------------------------------------------------
(* The render loop: the useFrame callbacks of part_001.  lerp comes from    *)
(* ../utils/math, a file that is not among the sources; it is taken as the *)
(* specification gives the easing: mix + (target - mix) * min(1, rate*dt). *)

\* 1.0 as a mix or an interpolation factor
Unit == 1000

Abs(n) == IF n < 0 THEN -n ELSE n

\* d * t for a factor t in thousandths, truncated toward zero
Scaled(d, t) == IF d >= 0 THEN (d * t) \div Unit ELSE -((-d * t) \div Unit)

\* the interpolation without the clamp of its factor
LerpUnclamped(a, b, t) == a + Scaled(b - a, t)

\* lerp(a, b, t) of ../utils/math
Lerp(a, b, t) == a + Scaled(b - a, Min(Unit, t))

\* a rate of 0.2 per second
SpeedSlow(delta) == delta \div 5

\* const speed = 2.0 * delta, part_001 188, 318, 580; delta in ms
Speed(delta) == 2 * delta

\* the easing run toward the opposite end of the mix
EaseMixAway(mix, mixFactor, delta) ==
    Lerp(mix, (1 - mixFactor) * Unit, Speed(delta))

\* currentMixRef.current = lerp(currentMixRef.current, mixFactor, speed)
EaseMix(mix, mixFactor, delta) == Lerp(mix, mixFactor * Unit, Speed(delta))

\* the components that hold a currentMixRef: Ornaments of an instanced type,
\* Ornaments of type PHOTO and of type BOX, and the meshes these two render
Components ==
    {"Ornaments", "OrnamentsPhoto", "OrnamentsBox", "PhotoFrameMesh", "GiftBoxMesh"}

\* the components whose mix places objects in the scene
Eased == {"Ornaments", "PhotoFrameMesh", "GiftBoxMesh"}

\* the mix a component's useFrame leaves in its ref: Ornaments returns at
\* part_001 578 for PHOTO and BOX before it reaches the easing
FrameMix(c, mix, mixFactor, delta) ==
    IF c \in {"OrnamentsPhoto", "OrnamentsBox"} THEN mix
    ELSE EaseMix(mix, mixFactor, delta)

\* tempVec.lerpVectors(item.chaosPos, item.targetPos, t), on one axis
LerpVectors(chaosPos, targetPos, t) == chaosPos + Scaled(targetPos - chaosPos, t)

\* tempVec.distanceTo(camera.position)
DistanceTo(pos, cam) == Abs(pos - cam)

\* the distances the scan of part_001 561-572 measures
PhotoDistances(data, cam, t) ==
    [i \in 1..Len(data) |->
        DistanceTo(LerpVectors(data[i].chaosPos, data[i].targetPos, t), cam)]

RECURSIVE ScanClosest(_, _, _, _)
ScanClosest(ds, i, minDist, closestIndex) ==
    IF i > Len(ds) THEN closestIndex
    ELSE IF ds[i] < minDist THEN ScanClosest(ds, i + 1, ds[i], i - 1)
    ELSE ScanClosest(ds, i + 1, minDist, closestIndex)

ClosestIndex(ds) == ScanClosest(ds, 1, Infinity, -1)

\* a gate that is open at every mix
TrackedAlways(mixFactor) == TRUE

\* type === 'PHOTO' && closestPhotoRef && mixFactor < 0.5
Tracked(mixFactor) == 2 * mixFactor < 1

\* what a render tick leaves in the history variable
Seen(cam, delta) ==
    [target |-> targetMix,
     ms |-> Min(SettleCap, IF frame.target = targetMix THEN frame.ms + delta
                           ELSE delta),
     dt |-> delta, cam |-> cam, tracked |-> Tracked(targetMix),
     pre |-> currentMix["PhotoFrameMesh"]]

\* a render tick that also forms the tree again once the ornaments have
\* left the formed end
RenderTickForms(data, cam, delta, watch) ==
    /\ closestPhotoRef' =
          IF Tracked(targetMix)
          THEN ClosestIndex(PhotoDistances(data, cam, currentMix["OrnamentsPhoto"]))
          ELSE closestPhotoRef
    /\ currentMix' =
          [c \in Components |-> FrameMix(c, currentMix[c], targetMix, delta)]
    /\ frame' = IF watch THEN Seen(cam, delta) ELSE frame
    /\ targetMix' = IF currentMix["Ornaments"] < Unit
                    THEN FORMED ELSE targetMix
    /\ UNCHANGED <<isSignatureOpen, isGestureHeld, userImages, activePhotoUrl,
                   isProcessing, inputRef, stabVars, loopVars, uploadVars, out,
                   hist, genVars, lifeVars>>

\* one frame of the render loop: every useFrame callback runs once with the
\* same delta; data are the items of the PHOTO population, cam is the camera
RenderTick(data, cam, delta, watch) ==
    /\ closestPhotoRef' =
          IF Tracked(targetMix)
          THEN ClosestIndex(PhotoDistances(data, cam, currentMix["OrnamentsPhoto"]))
          ELSE closestPhotoRef
    /\ currentMix' =
          [c \in Components |-> FrameMix(c, currentMix[c], targetMix, delta)]
    /\ frame' = IF watch THEN Seen(cam, delta) ELSE frame
    /\ UNCHANGED <<stabVars, loopVars, appVars, uploadVars, out, hist, genVars,
                   lifeVars>>

\* a gesture event handed to App.handleGesture
Gesture(data) ==
    /\ OnGesture(data)
    /\ UNCHANGED <<stabVars, loopVars, closestPhotoRef, uploadVars, out,
                   renderVars, lifeVars>>

\* the state one queued batch of updates turns state st into: setTargetMix
\* has an updater that returns newTarget whatever prev is (App.tsx 94-97),
\* the other setters are given values
Update(st, r) ==
    [targetMix |-> IF "setTargetMix" \in r.calls THEN r.targetMix
                   ELSE st.targetMix,
     isSignatureOpen |-> IF "setIsSignatureOpen" \in r.calls
                         THEN r.isSignatureOpen ELSE st.isSignatureOpen,
     isGestureHeld |-> IF "setIsGestureHeld" \in r.calls
                       THEN r.isGestureHeld ELSE st.isGestureHeld,
     activePhotoUrl |-> IF "setActivePhotoUrl" \in r.calls THEN r.photo
                        ELSE st.activePhotoUrl]

RECURSIVE Applied(_, _)
Applied(st, queue) ==
    IF queue = <<>> THEN st
    ELSE Applied(Update(st, Head(queue)), Tail(queue))

\* the state React has committed
Committed ==
    [targetMix |-> targetMix, isSignatureOpen |-> isSignatureOpen,
     isGestureHeld |-> isGestureHeld, activePhotoUrl |-> activePhotoUrl]

\* handleGesture runs from the continuation of runDetection: the ref is
\* written at once, the state updates are queued (the root is made with
\* createRoot, part_000 50, so updates made outside React event handlers
\* are batched and rendered in a later task)
GestureEnqueue(data) ==
    /\ Len(pending) < MaxPending
    /\ inputRef' = TrackInput(inputRef, data)
    /\ LET r == HandleGesture(Closure, targetMix, closestPhotoRef, data) IN
          /\ pending' = Append(pending, r)
          /\ smLast' = [kind |-> "gesture", ev |-> data, pre |-> InteractionState,
                        idx |-> closestPhotoRef, calls |-> r.calls]
    /\ UNCHANGED <<targetMix, isSignatureOpen, isGestureHeld, userImages,
                   activePhotoUrl, isProcessing, stabVars, loopVars,
                   closestPhotoRef, uploadVars, out, scenario, renderVars,
                   envVars, chainVars>>

\* React renders App with the queued updates applied, and the children
\* receive the new mixFactor (App.tsx 219-226)
Commit ==
    /\ pending # <<>>
    /\ LET st == Applied(Committed, pending) IN
          /\ targetMix' = st.targetMix
          /\ isSignatureOpen' = st.isSignatureOpen
          /\ isGestureHeld' = st.isGestureHeld
          /\ activePhotoUrl' = st.activePhotoUrl
    /\ pending' = <<>>
    /\ UNCHANGED <<userImages, isProcessing, inputRef, stabVars, loopVars,
                   closestPhotoRef, uploadVars, out, hist, renderVars, envVars,
                   chainVars>>

----------------------------------------------------------------------------
(* The layout of a population: the data useMemo of Ornaments, part_001     *)
(* 443-521.  Lengths are in thousandths, angles in thousandths of a radian; *)
(* a position is given by its distance from the vertical axis, its height   *)
(* and its angle around the axis.  Math.random() is a stream of draws in    *)
(* thousandths, and an item consumes its draws in the order of the code.    *)

Types == {"BALL", "BOX", "STAR", "CANDY", "CRYSTAL", "PHOTO"}

\* getTypeOffsetIndex, part_001 397-407
TypeOffsetIndex(type) ==
    CASE type = "BALL" -> 0
      [] type = "BOX" -> 1
      [] type = "STAR" -> 2
      [] type = "CANDY" -> 3
      [] type = "CRYSTAL" -> 4
      [] type = "PHOTO" -> 5
      [] OTHER -> 0

\* the largest r in lo..hi with r * r <= n, by bisection
RECURSIVE Root(_, _, _)
Root(n, lo, hi) ==
    IF lo >= hi THEN lo
    ELSE LET mid == (lo + hi + 1) \div 2
         IN IF mid * mid <= n THEN Root(n, mid, hi) ELSE Root(n, lo, mid - 1)

\* Math.sqrt of n millionths, in thousandths (n is at most one million)
Sqrt(n) == Root(n, 0, 1000)

\* Math.sqrt((i + 1) / count) * 0.9
Progress(i, count) == (Sqrt(((i + 1) * 1000000) \div count) * 9) \div 10

\* tPos of item i: the spiral position, pushed outward
TargetPos(type, count, i) ==
    LET progress == Progress(i, count)
        r == (progress * TreeRadiusBase) \div 10
        y == ApexY * 1000 - progress * TreeHeight
        theta == i * GoldenAngle + TypeOffsetIndex(type) * (TwoPi \div 6)
        pushOut == IF type \in {"STAR", "PHOTO"} THEN 115 ELSE 108
    IN [r |-> (r * pushOut) \div 100, y |-> (y * pushOut) \div 100,
        theta |-> theta]

\* randomVector3(radius) of ../utils/math: a point of the ball of that radius
RandomVector3(radius, u, v, w) ==
    [r |-> radius * u, y |-> radius * (2 * v - 1000), theta |-> (TwoPi * w) \div 1000]

\* cPos of item i, part_001 472-481; rnd are the draws of the item
ChaosPos(type, count, i, rnd) ==
    IF type = "PHOTO"
    THEN [r |-> ChaosRadius * 1000,
          y |-> ((i * 1000) \div count - 500) * ChaosHeightRange,
          theta |-> i * GoldenAngle]
    ELSE RandomVector3(ScatterRadius, rnd[1], rnd[2], rnd[3])

\* the number of Math.random() calls one item makes (with a palette given)
DrawsPerItem(type) ==
    (IF type = "PHOTO" THEN 0 ELSE 3) + 2 + (IF type = "BOX" THEN 3 ELSE 0)
    + (IF type = "PHOTO" THEN 1 ELSE 0) + 2

\* an item whose spiral angle is shifted by one of its random draws
ItemJittered(type, count, i, rnd) ==
    LET first == IF type = "PHOTO" THEN 1 ELSE 4 IN
    [chaosPos |-> ChaosPos(type, count, i, rnd),
     targetPos |-> [TargetPos(type, count, i) EXCEPT !.theta = @ + rnd[first]],
     chaosTilt |-> IF type = "PHOTO" THEN ((i % 5) - 2) * 150 ELSE 0,
     color |-> rnd[first],
     randScale |-> (rnd[first + 1] * 4) \div 10 + 800]

\* one turn of the loop of part_001 454-519 (palette index and scale draw
\* kept as drawn; the box, photo and rotation draws only advance the stream)
Item(type, count, i, rnd) ==
    LET first == IF type = "PHOTO" THEN 1 ELSE 4 IN
    [chaosPos |-> ChaosPos(type, count, i, rnd),
     targetPos |-> TargetPos(type, count, i),
     chaosTilt |-> IF type = "PHOTO" THEN ((i % 5) - 2) * 150 ELSE 0,
     color |-> rnd[first],
     randScale |-> (rnd[first + 1] * 4) \div 10 + 800]

\* the k-th value Math.random() returns in run s of the program
Stream(s, k) == (s * (131 * k + 17 * k * k) + 7 * k) % 1000

\* for (let i = 0; i < count; i++) items.push(...); an empty array when
\* count is not positive
Items(type, count, s) ==
    [j \in 1..count |->
        Item(type, count, j - 1,
             [k \in 1..DrawsPerItem(type) |->
                 Stream(s, (j - 1) * DrawsPerItem(type) + k)])]

Generated(type, count, s) ==
    [type |-> type, count |-> count, items |-> Items(type, count, s)]

NoData == [type |-> "none", count |-> 0, items |-> <<>>]

\* useMemo recomputes data for the current type and count
Regenerate(type, count, s) ==
    /\ ornamentData' = Generated(type, count, s)
    /\ dataBefore' = ornamentData
    /\ UNCHANGED <<stabVars, loopVars, appVars, closestPhotoRef, uploadVars, out,
                   hist, currentMix, frame, lifeVars>>

----------------------------------------------------------------------------
(* Inputs *)

\* runs of the program, which differ in what Math.random() returns
Runs == {1, 2}

\* counts a population is asked for: none, a negative one, and positive ones
Counts == {-1, 0} \cup (1..MaxCount)

\* time between two invocations of runDetection
Deltas == {40, 120}
\* the same when every invocation is far enough from the last to be accepted
SlowDeltas == {120}

\* hand poses: open / fist, pinching or not
Hands ==
    {[wx |-> 160, wy |-> 120, tip |-> t, base |-> 10, pinchDist |-> p, palm |-> 10] :
        t \in {10, 20}, p \in {2, 10}}
TwoHands ==
    {[wx |-> 80, wy |-> 120, tip |-> 20, base |-> 10, pinchDist |-> 10, palm |-> 10],
     [wx |-> 160, wy |-> 60, tip |-> 10, base |-> 10, pinchDist |-> 2, palm |-> 10]}

\* the events runDetection can hand over
Events ==
    {[isOpen |-> o, isPinch |-> p, position |-> [x |-> 0, y |-> 0],
      isDetected |-> TRUE] : o \in BOOLEAN, p \in BOOLEAN} \cup {LostEvent}

\* the photo population on one axis: formed close together near the origin,
\* scattered far apart and in the opposite order
PhotoData ==
    [i \in 1..PhotoCount |->
        [chaosPos |-> 600 * (PhotoCount + 1 - i), targetPos |-> 100 * i]]

\* camera positions: before the first formed photo, midway between the first
\* two, and beyond every photo
Cameras == {0, 150, 3200}
\* a camera that stays where it is
StillCamera == {0}

\* time between two frames: short ones, and one longer than half a second
MixDeltas == {100, 250, 600}
ScanDeltas == {250, 600}
LongDeltas == {600}

\* everything but the detection chain and its surroundings
InitCore ==
    /\ lastDetectionTime = 0
    /\ ratioHistory = <<>>
    /\ posHistory = <<>>
    /\ isCurrentlyOpen = FALSE
    /\ pinchHistory = <<>>
    /\ missedFrames = 0
    /\ now = StartTime
    /\ targetMix = FORMED
    /\ isSignatureOpen = FALSE
    /\ isGestureHeld = FALSE
    /\ userImages = <<>>
    /\ activePhotoUrl = Null
    /\ isProcessing = FALSE
    /\ closestPhotoRef = -1
    /\ inputRef = [x |-> 0, y |-> 0, isDetected |-> FALSE]
    /\ timers = {}
    /\ uploads = 0
    /\ out = [step |-> "init", n |-> 0, ev |-> LostEvent, full |-> {}, run |-> 0]
    /\ smLast = Manual("init")
    /\ scenario = NoScenario
    /\ currentMix = [c \in Components |-> Unit]
    /\ ornamentData = Generated("BALL", 1, 1)
    /\ dataBefore = NoData
    /\ frame = [target |-> FORMED, ms |-> 0, dt |-> 0, cam |-> 0,
                tracked |-> FALSE, pre |-> Unit]
    /\ visible = TRUE
    /\ restartTimers = 0
    /\ inflight = 0
    /\ gap = FALSE
    /\ pending = <<>>

\* the model has loaded, the camera delivers frames and the effect of
\* App.tsx 617-622 has made the first request
Init ==
    /\ InitCore
    /\ pc = "scheduled"
    /\ mounted = TRUE
    /\ modelState = "loaded"
    /\ video = "ready"
    /\ requests = 1
    /\ timerLive = TRUE

\* GestureController has just mounted: loading is true, model is null
\* (App.tsx 331-332), and the camera has not delivered a frame
InitMount ==
    /\ InitCore
    /\ pc = "idle"
    /\ mounted = TRUE
    /\ modelState = "loading"
    /\ video = "starting"
    /\ requests = 0
    /\ timerLive = FALSE

(* The stabilizer over accepted ticks *)
StabStart == \E d \in SlowDeltas : RunDetection(d, TRUE, TRUE, MaxTime)
StabHand == \E hand \in Hands : HandRead(hand)

NextStab ==
    \/ StabStart
    \/ StabHand
    \/ NoWrist
    \/ Miss

SpecStab == Init /\ [][NextStab]_vars

(* The detection loop with throttled, unready and failing invocations *)
LoopStart == \E d \in Deltas, ready \in BOOLEAN, sized \in BOOLEAN :
                RunDetection(d, ready, sized, MaxThrottleTime)
LoopHand == \E hand \in TwoHands : HandRead(hand)

NextLoop ==
    \/ LoopStart
    \/ LoopHand
    \/ NoWrist
    \/ Miss
    \/ EstimateThrows

SpecLoop == Init /\ [][NextLoop]_vars

(* The three windows under reads whose wrist position, ratio and pinch vote *)
(* all vary, so that the entries of every window can be told apart          *)
WinStart == \E d \in SlowDeltas : RunDetection(d, TRUE, TRUE, MaxTime)
WinHand == \E hand \in TwoHands : HandRead(hand)

NextWin ==
    \/ WinStart
    \/ WinHand
    \/ NoWrist
    \/ Miss

SpecWin == Init /\ [][NextWin]_vars

(* The interaction state machine under gestures, manual controls, uploads  *)
(* and render ticks                                                        *)
SomeGesture == \E data \in Events : Gesture(data)
SomeSignatureClick == \E r \in 0..(MaxFiles - 1) : HandleSignatureClick(r)
SomeUpload == \E n \in 1..MaxFiles : HandleFileChange(n)
SomeTimer == \E t \in timers : TimerFires(t)
SomeRender == \E cam \in Cameras, delta \in LongDeltas :
                 RenderTick(PhotoData, cam, delta, FALSE)

NextApp ==
    \/ SomeGesture
    \/ ToggleState
    \/ SomeSignatureClick
    \/ CloseOverlay
    \/ SomeUpload
    \/ SomeTimer
    \/ SomeRender

SpecApp == Init /\ [][NextApp]_vars

(* The render loop under changes of the target *)
MixRender == \E cam \in StillCamera, delta \in MixDeltas :
                RenderTick(PhotoData, cam, delta, TRUE)

NextMix ==
    \/ ToggleState
    \/ MixRender

SpecMix == Init /\ [][NextMix]_vars

(* The layout generated again and again *)
SomeRegenerate == \E type \in Types, count \in Counts, s \in Runs :
                     Regenerate(type, count, s)

NextGen == SomeRegenerate

SpecGen == Init /\ [][NextGen]_vars

(* The closest-photo scan under a moving camera and changes of the target *)
ScanRender == \E cam \in Cameras, delta \in ScanDeltas :
                 RenderTick(PhotoData, cam, delta, TRUE)

NextScan ==
    \/ ToggleState
    \/ ScanRender

SpecScan == Init /\ [][NextScan]_vars

(* Gesture events, React commits and render ticks as separate steps, with  *)
(* an upload that provides the images                                      *)
FrameGesture == \E data \in Events : GestureEnqueue(data)
FrameRender == \E cam \in StillCamera, delta \in LongDeltas :
                  RenderTick(PhotoData, cam, delta, TRUE)

\* the upload and its timers, taken while React has no update queued
FrameUpload == pending = <<>> /\ SomeUpload
FrameTimer == pending = <<>> /\ SomeTimer

NextFrame ==
    \/ FrameGesture
    \/ Commit
    \/ FrameRender
    \/ FrameUpload
    \/ FrameTimer

SpecFrame == Init /\ [][NextFrame]_vars

(* The detection loop, the render loop and a manual command side by side   *)
OwnStart == \E d \in SlowDeltas : RunDetection(d, TRUE, TRUE, LifeTime)
OwnHand == \E hand \in TwoHands : HandRead(hand)
OwnRender == \E cam \in Cameras, delta \in LongDeltas :
                RenderTick(PhotoData, cam, delta, TRUE)

NextOwn ==
    \/ OwnStart
    \/ OwnHand
    \/ Miss
    \/ ToggleState
    \/ OwnRender

SpecOwn == Init /\ [][NextOwn]_vars

(* The detection loop from mount to unmount, with the model loading, the   *)
(* camera failing and restarting and the document hidden and shown         *)
LifeFrame ==
    /\ mounted
    /\ visible
    /\ \E d \in SlowDeltas : RunDetection(d, Ready, TRUE, LifeTime)
LifeHand == \E hand \in TwoHands : HandRead(hand)

LifeLoop ==
    \/ LifeFrame
    \/ LifeHand
    \/ NoWrist
    \/ Miss

Detached ==
    \/ DetachedFrame
    \/ DetachedReschedule

NextLife ==
    \/ LifeLoop
    \/ Detached
    \/ ModelLoaded
    \/ ModelFails
    \/ Teardown
    \/ Hide
    \/ Show
    \/ RestartFires
    \/ CameraError
    \/ VideoLoaded

SpecLife == InitMount /\ [][NextLife]_vars

(* Every path of runDetection while GestureController stays mounted        *)
LiveFrame ==
    /\ visible
    /\ \E d \in Deltas, sized \in BOOLEAN : RunDetection(d, Ready, sized, LifeTime)
LiveThrows == \E hand \in TwoHands : CallbackThrows(hand)

NextLive ==
    \/ LiveFrame
    \/ LifeHand
    \/ NoWrist
    \/ Miss
    \/ EstimateThrows
    \/ LiveThrows
    \/ ModelLoaded
    \/ VideoLoaded
    \/ CameraError
    \/ Hide
    \/ Show
    \/ RestartFires

SpecLive == InitMount /\ [][NextLive]_vars

(* The same from mount to unmount with the document visible throughout:    *)
(* the browser runs every animation frame requested, and every call of     *)
(* estimateHands settles                                                   *)
NextDown ==
    \/ LifeLoop
    \/ Detached
    \/ ModelLoaded
    \/ VideoLoaded
    \/ Teardown

SpecDown ==
    /\ InitMount
    /\ [][NextDown]_vars
    /\ WF_vars(LifeLoop)
    /\ WF_vars(Detached)

----------------------------------------------------------------------------
(* Steps of the detection loop, as seen in a pair of states *)

\* runDetection was invoked (only it reads the clock)
Attempt == now' # now
\* the awaited estimateHands call returned a hand with a wrist
HandStep == pc = "awaiting" /\ out'.step = "hand"
\* the awaited call returned no prediction
MissStep == pc = "awaiting" /\ out'.step \in {"miss", "lost"}

\* the awaited call returned a prediction without a wrist landmark
NoWristStep == pc = "awaiting" /\ out'.step = "nowrist"

LastN(h, n) == IF Len(h) > n THEN SubSeq(h, Len(h) - n + 1, Len(h)) ELSE h

----------------------------------------------------------------------------
(* Claims *)

\* C1: on a hand read the emitted isOpen stays true when the latch was OPEN
\* and the smoothed ratio (mean of the ratio window) is at least 1.2, and
\* stays false when the latch was CLOSED and the smoothed ratio is at most 1.6.
C1_Hysteresis ==
    [][HandStep =>
         /\ (isCurrentlyOpen /\ SumSeq(ratioHistory') >= 120 * Len(ratioHistory')
                => out'.ev.isOpen /\ isCurrentlyOpen')
         /\ (~isCurrentlyOpen /\ SumSeq(ratioHistory') <= 160 * Len(ratioHistory')
                => ~out'.ev.isOpen /\ ~isCurrentlyOpen')]_vars

\* a ratio of 2.0 followed by two of 1.0: the mean dips to 1.33 and the event
\* still says open
C1_Witness ==
    /\ out.step = "hand"
    /\ ratioHistory = <<200, 100, 100>>
    /\ out.ev.isOpen

\* C2: on a hand read the pinch window becomes the last 3 votes and the emitted
\* isPinch is true iff at least 2 of the votes in the window are true.
C2_PinchDebounce ==
    [][HandStep =>
         /\ Len(pinchHistory') >= 1
         /\ pinchHistory' =
               LastN(Append(pinchHistory, pinchHistory'[Len(pinchHistory')]), 3)
         /\ out'.ev.isDetected
         /\ out'.ev.isPinch =
               (Cardinality({i \in DOMAIN pinchHistory' : pinchHistory'[i]}) >= 2)]_vars

\* votes [true, true, false] give isPinch = true
C2_Witness ==
    /\ out.step = "hand"
    /\ pinchHistory = <<TRUE, TRUE, FALSE>>
    /\ out.ev.isPinch

\* C3: an invocation less than 100 ms after the last accepted one emits nothing
\* and changes no stabilizer state; accepted invocations are at least 100 ms
\* apart; a ready invocation 100 ms or more after the last accepted one is
\* accepted.
C3_Throttle ==
    [][Attempt =>
         /\ (now' - lastDetectionTime < 100
                => /\ stabVars' = stabVars
                   /\ out'.n = 0
                   /\ pc' = "scheduled"
                   /\ <<appVars, hist>>' = <<appVars, hist>>)
         /\ (lastDetectionTime' # lastDetectionTime
                => /\ lastDetectionTime' = now'
                   /\ lastDetectionTime' - lastDetectionTime >= 100)
         /\ (now' - lastDetectionTime >= 100 /\ out'.step # "notready"
                => lastDetectionTime' = now')]_vars

\* a second invocation 40 ms after an accepted hand read is suppressed
C3_Witness ==
    /\ out.step = "throttled"
    /\ now - lastDetectionTime = 40
    /\ Len(ratioHistory) > 0

\* C4: a hand read zeroes the miss counter; each miss adds one to it; the first
\* 5 misses of a run emit nothing and the 6th emits one not-detected event.
C4_MissGrace ==
    [][/\ (HandStep => missedFrames' = 0)
       /\ (MissStep =>
             /\ missedFrames' = missedFrames + 1
             /\ (missedFrames' <= 5 => out'.n = 0)
             /\ (missedFrames' = 6 => out'.n = 1 /\ ~out'.ev.isDetected))]_vars

\* the 6th miss after a hand had been tracked
C4_Witness ==
    /\ out.step = "lost"
    /\ missedFrames = 6
    /\ Len(pinchHistory) > 0

\* C5: after a not-detected event the position, ratio and pinch windows are
\* empty and the latch is CLOSED.
C5_LossReset ==
    out.step = "lost" =>
        /\ posHistory = <<>>
        /\ ratioHistory = <<>>
        /\ pinchHistory = <<>>
        /\ ~isCurrentlyOpen

\* C6 as claimed: from CHAOS with the overlay closed and no hold, [pinch] opens
\* the overlay, [no pinch] closes it without writing the tree target, and
\* [no pinch, open] sets the tree target to CHAOS.
C6_PriorityOrder_Original ==
    /\ (scenario.stage = 1 => isSignatureOpen)
    /\ (scenario.stage = 2 =>
            ~isSignatureOpen /\ "setTargetMix" \notin smLast.calls)
    /\ (scenario.stage = 3 => targetMix = CHAOS)

\* C6 amended: the same, when a photo was available to the first event
\* (closest index >= 0 and at least one user image).
C6_PriorityOrder ==
    scenario.photo =>
        /\ (scenario.stage = 1 => isSignatureOpen /\ isGestureHeld)
        /\ (scenario.stage = 2 =>
                /\ ~isSignatureOpen
                /\ "setTargetMix" \notin smLast.calls
                /\ targetMix = CHAOS)
        /\ (scenario.stage = 3 =>
                /\ targetMix = CHAOS
                /\ "setTargetMix" \in smLast.calls)

C6_Witness == scenario.stage = 3 /\ scenario.photo /\ smLast.kind = "gesture"

\* C7: a gesture event with isPinch = true leaves the tree target unchanged.
C7_PinchFreezesTree ==
    (smLast.kind = "gesture" /\ smLast.ev.isPinch) =>
        /\ targetMix = smLast.pre.targetMix
        /\ "setTargetMix" \notin smLast.calls

\* a pinch read with a closed hand opens the overlay and the tree stays in CHAOS
C7_Witness ==
    /\ smLast.kind = "gesture"
    /\ smLast.ev.isPinch /\ ~smLast.ev.isOpen
    /\ ~smLast.pre.isSignatureOpen /\ isSignatureOpen
    /\ targetMix = CHAOS

\* C8: a gesture event opens the overlay or sets the hold only if it is a pinch
\* processed in CHAOS; a pinch in FORMED without a hold, or with the overlay
\* open and not held, changes nothing of the interaction state.
C8_PinchOpenGuard ==
    smLast.kind = "gesture" =>
        /\ (((~smLast.pre.isSignatureOpen /\ isSignatureOpen)
               \/ (~smLast.pre.isGestureHeld /\ isGestureHeld))
                => (smLast.ev.isPinch /\ smLast.pre.targetMix = CHAOS))
        /\ ((smLast.ev.isPinch
              /\ ((smLast.pre.targetMix = FORMED /\ ~smLast.pre.isGestureHeld)
                  \/ (smLast.pre.isSignatureOpen /\ ~smLast.pre.isGestureHeld)))
                => InteractionState = smLast.pre)

\* a pinch in FORMED with a photo available and the overlay closed
C8_Witness ==
    /\ smLast.kind = "gesture"
    /\ smLast.ev.isPinch
    /\ smLast.pre.targetMix = FORMED
    /\ ~smLast.pre.isSignatureOpen /\ ~smLast.pre.isGestureHeld
    /\ smLast.idx >= 0 /\ Len(userImages) > 0
    /\ InteractionState = smLast.pre

\* C9 as claimed: a pinch processed in CHAOS with the overlay closed and no hold
\* opens the overlay, sets the hold and shows the image at the closest index.
C9_PinchFirstEntry_Original ==
    (/\ smLast.kind = "gesture"
     /\ smLast.ev.isPinch
     /\ smLast.pre = [targetMix |-> CHAOS, isSignatureOpen |-> FALSE,
                      isGestureHeld |-> FALSE])
        => /\ isSignatureOpen
           /\ isGestureHeld

\* C9 amended: the same when the closest index is >= 0 and there is at least
\* one user image; the content is userImages[index], which is undefined when
\* the index is past the end of the list.
C9_PinchFirstEntry ==
    (/\ smLast.kind = "gesture"
     /\ smLast.ev.isPinch
     /\ smLast.pre = [targetMix |-> CHAOS, isSignatureOpen |-> FALSE,
                      isGestureHeld |-> FALSE]
     /\ smLast.idx >= 0
     /\ Len(userImages) > 0)
        => /\ isSignatureOpen
           /\ isGestureHeld
           /\ activePhotoUrl =
                 IF smLast.idx < Len(userImages)
                 THEN userImages[smLast.idx + 1] ELSE Undefined

\* the second of two images is the closest and is the one shown
C9_Witness ==
    /\ smLast.kind = "gesture"
    /\ smLast.ev.isPinch
    /\ ~smLast.pre.isSignatureOpen /\ ~smLast.pre.isGestureHeld
    /\ smLast.idx = 1
    /\ Len(userImages) = 2
    /\ isGestureHeld
    /\ activePhotoUrl = userImages[2]

\* C10: a gesture event with isPinch = false processed during a gesture hold
\* closes the overlay, clears the hold and leaves the tree target unchanged.
C10_PinchRelease ==
    (smLast.kind = "gesture" /\ ~smLast.ev.isPinch /\ smLast.pre.isGestureHeld) =>
        /\ ~isSignatureOpen
        /\ ~isGestureHeld
        /\ targetMix = smLast.pre.targetMix
        /\ "setTargetMix" \notin smLast.calls

\* an open-hand reading releases a hold while the tree target is FORMED
C10_Witness ==
    /\ smLast.kind = "gesture"
    /\ ~smLast.ev.isPinch /\ smLast.ev.isOpen
    /\ smLast.pre.isGestureHeld /\ smLast.pre.isSignatureOpen
    /\ smLast.pre.targetMix = FORMED
    /\ targetMix = FORMED /\ ~isSignatureOpen

\* C11: a gesture event without pinch, handled while the overlay is closed and
\* no gesture hold is active, leaves the tree target at CHAOS if the event says
\* open and at FORMED otherwise, and leaves the overlay and the hold as they
\* were; handling the same event once more changes nothing.
C11_TreeControl ==
    (smLast.kind = "gesture" /\ ~smLast.ev.isPinch
        /\ ~smLast.pre.isSignatureOpen /\ ~smLast.pre.isGestureHeld)
    => /\ targetMix = (IF smLast.ev.isOpen THEN CHAOS ELSE FORMED)
       /\ ~isSignatureOpen /\ ~isGestureHeld
       /\ "setActivePhotoUrl" \notin smLast.calls
       /\ LET again == HandleGesture(Closure, targetMix, closestPhotoRef, smLast.ev)
          IN /\ again.targetMix = targetMix
             /\ again.isSignatureOpen = isSignatureOpen
             /\ again.isGestureHeld = isGestureHeld
             /\ "setActivePhotoUrl" \notin again.calls

\* a closed hand formed the tree again after it had been scattered
C11_Witness ==
    /\ smLast.kind = "gesture"
    /\ ~smLast.ev.isPinch /\ ~smLast.ev.isOpen /\ smLast.ev.isDetected
    /\ ~smLast.pre.isSignatureOpen /\ ~smLast.pre.isGestureHeld
    /\ smLast.pre.targetMix = CHAOS
    /\ targetMix = FORMED

\* C12: while the overlay is open and not held by a gesture, no gesture event
\* changes the tree target, the overlay or the hold.
C12_ManualOverlayBlocks ==
    (smLast.kind = "gesture"
        /\ smLast.pre.isSignatureOpen /\ ~smLast.pre.isGestureHeld)
    => InteractionState = smLast.pre

\* an open hand without pinch reached the handler while the tree was formed
\* and a manually opened overlay was shown
C12_Witness ==
    /\ smLast.kind = "gesture"
    /\ ~smLast.ev.isPinch /\ smLast.ev.isOpen
    /\ smLast.pre.isSignatureOpen /\ ~smLast.pre.isGestureHeld
    /\ smLast.pre.targetMix = FORMED
    /\ targetMix = FORMED /\ isSignatureOpen /\ ~isGestureHeld

\* C13: after a manual command (the tree toggle, the signature button, the
\* overlay's close or done button) no gesture hold is active.
C13_ManualClearsHold ==
    smLast.kind \in {"toggle", "signature", "close"} => ~isGestureHeld

\* C19: the position window never holds more than 8 entries, the ratio window
\* never more than 5 and the pinch window never more than 3; a hand read
\* appends one entry to each window, and when the window was full it drops
\* exactly the oldest entry and keeps the others in order.
C19_WindowCapacity ==
    [][/\ Len(posHistory') <= 8
       /\ Len(ratioHistory') <= 5
       /\ Len(pinchHistory') <= 3
       /\ HandStep =>
            /\ Len(posHistory') >= 1 /\ Len(ratioHistory') >= 1
            /\ Len(pinchHistory') >= 1
            /\ posHistory' =
                 IF Len(posHistory) = 8
                 THEN Append(Tail(posHistory), posHistory'[Len(posHistory')])
                 ELSE Append(posHistory, posHistory'[Len(posHistory')])
            /\ ratioHistory' =
                 IF Len(ratioHistory) = 5
                 THEN Append(Tail(ratioHistory), ratioHistory'[Len(ratioHistory')])
                 ELSE Append(ratioHistory, ratioHistory'[Len(ratioHistory')])
            /\ pinchHistory' =
                 IF Len(pinchHistory) = 3
                 THEN Append(Tail(pinchHistory), pinchHistory'[Len(pinchHistory')])
                 ELSE Append(pinchHistory, pinchHistory'[Len(pinchHistory')])]_vars

\* a read pushed onto three full windows, and the position window that came
\* out holds two different wrist positions
C19_Witness ==
    /\ out.step = "hand"
    /\ out.full = {"pos", "ratio", "pinch"}
    /\ Len(posHistory) = 8 /\ Len(ratioHistory) = 5 /\ Len(pinchHistory) = 3
    /\ posHistory[1] # posHistory[2]
    /\ posHistory[7] # posHistory[8]

\* C20 as stated: over every step of the stabilizer the latch goes from CLOSED
\* to OPEN only in a step whose smoothed ratio exceeds 1.6, and from OPEN to
\* CLOSED only in a step whose smoothed ratio is below 1.2.
C20_LatchAtThresholds_Original ==
    [][/\ (~isCurrentlyOpen /\ isCurrentlyOpen')
            => /\ HandStep
               /\ SumSeq(ratioHistory') > 160 * Len(ratioHistory')
       /\ (isCurrentlyOpen /\ ~isCurrentlyOpen')
            => /\ HandStep
               /\ SumSeq(ratioHistory') < 120 * Len(ratioHistory')]_vars

\* C20: the latch goes from CLOSED to OPEN only in a hand read whose smoothed
\* ratio exceeds 1.6, and from OPEN to CLOSED only in a hand read whose
\* smoothed ratio is below 1.2 or in the loss reset, which empties the ratio
\* window; every other step (miss within the grace, throttled or unready
\* invocation, failed estimate) leaves the latch as it is.
C20_LatchAtThresholds ==
    [][/\ (~isCurrentlyOpen /\ isCurrentlyOpen')
            => /\ HandStep
               /\ SumSeq(ratioHistory') > 160 * Len(ratioHistory')
       /\ (isCurrentlyOpen /\ ~isCurrentlyOpen')
            => \/ /\ HandStep
                  /\ SumSeq(ratioHistory') < 120 * Len(ratioHistory')
               \/ /\ MissStep
                  /\ out'.step = "lost"
                  /\ missedFrames' > 5
                  /\ ratioHistory' = <<>>]_vars

\* the loss reset has just closed the latch: the only hand ever read (one vote,
\* no pinch) was the open hand of ratio 2.0, which had opened it
C20_Witness ==
    /\ out.step = "lost"
    /\ missedFrames = 6
    /\ pinchHistory = <<FALSE>>
    /\ ~isCurrentlyOpen
    /\ ratioHistory = <<>>

\* C14: a step never takes the eased mix of an object past the target or away
\* from it, whatever the length of the frame: the mix after the step lies
\* between the mix before it and the target.
C14_NoOvershoot ==
    [][\A c \in Eased :
          /\ currentMix[c] <= targetMix * 1000
                => currentMix[c] <= currentMix'[c] /\ currentMix'[c] <= targetMix * 1000
          /\ currentMix[c] >= targetMix * 1000
                => currentMix[c] >= currentMix'[c] /\ currentMix'[c] >= targetMix * 1000]_vars

\* a frame of 600 ms took the photos from a mix strictly between the ends to
\* CHAOS exactly
C14_Witness ==
    /\ frame.dt = 600
    /\ frame.target = CHAOS
    /\ frame.pre > 0 /\ frame.pre < 1000
    /\ currentMix["PhotoFrameMesh"] = 0

\* C15: once the render ticks that saw the same target add up to 3 seconds,
\* the eased mix of every object is within 1% of that target, and it stays
\* there on later ticks with that target.
C15_Converges ==
    frame.ms >= 3000
    => \A c \in Eased :
          /\ currentMix[c] - frame.target * 1000 <= 10
          /\ frame.target * 1000 - currentMix[c] <= 10

\* thirty or more short frames toward CHAOS: the mix is close to 0, not on it
C15_Witness ==
    /\ frame.ms >= 3000
    /\ frame.dt = 100
    /\ frame.target = CHAOS
    /\ currentMix["PhotoFrameMesh"] > 0
    /\ currentMix["PhotoFrameMesh"] <= 10
    /\ currentMix["Ornaments"] = currentMix["PhotoFrameMesh"]
    /\ currentMix["GiftBoxMesh"] = currentMix["PhotoFrameMesh"]

\* C16: every mix scalar lies in [0, 1] in every reachable state.
C16_MixRange ==
    \A c \in Components : currentMix[c] >= 0 /\ currentMix[c] <= 1000

\* the target was reversed while the objects were on their way: the mix is
\* strictly inside the range and rising again
C16_Witness ==
    /\ frame.target = FORMED
    /\ frame.pre > 0
    /\ frame.pre < currentMix["PhotoFrameMesh"]
    /\ currentMix["PhotoFrameMesh"] < 1000

\* the photo nearest to the camera when every photo stands at mix t, the
\* lowest index among equally near ones, counted from 0
NearestPhoto(cam, t) ==
    CHOOSE i \in 0..(PhotoCount - 1) :
        \A j \in 0..(PhotoCount - 1) :
            LET di == Abs(PhotoData[i + 1].chaosPos
                          + ((PhotoData[i + 1].targetPos - PhotoData[i + 1].chaosPos) * t)
                            \div 1000 - cam)
                dj == Abs(PhotoData[j + 1].chaosPos
                          + ((PhotoData[j + 1].targetPos - PhotoData[j + 1].chaosPos) * t)
                            \div 1000 - cam)
            IN di < dj \/ (di = dj /\ i <= j)

\* C17: after a render tick in which the photo population is tracked, the
\* published index is that of the photo nearest to the camera at the photos'
\* own eased mix (the one before or the one after this tick's easing).
C17_ClosestScan ==
    frame.tracked
    => \/ closestPhotoRef = NearestPhoto(frame.cam, frame.pre)
       \/ closestPhotoRef = NearestPhoto(frame.cam, currentMix["PhotoFrameMesh"])

\* C18: two generations for the same type and the same count give every index
\* the same formed position, whatever Math.random() returned in either and
\* whatever was generated before.
C18_SpiralDeterminism ==
    (ornamentData.type = dataBefore.type /\ ornamentData.count = dataBefore.count)
    => \A i \in 1..ornamentData.count :
          ornamentData.items[i].targetPos = dataBefore.items[i].targetPos

\* two layouts of two balls whose random draws differed: the scattered
\* positions differ, the formed positions are the same and not on one spot
C18_Witness ==
    /\ ornamentData.type = "BALL" /\ dataBefore.type = "BALL"
    /\ ornamentData.count = 2 /\ dataBefore.count = 2
    /\ ornamentData.items[1].chaosPos # dataBefore.items[1].chaosPos
    /\ ornamentData.items[2].targetPos = dataBefore.items[2].targetPos
    /\ ornamentData.items[1].targetPos # ornamentData.items[2].targetPos

\* C21: right after a hand has been read the miss counter is 0, and a
\* not-detected event is emitted only by a tick that is at least the sixth
\* tick without a prediction since the last hand that was read; one such tick
\* between two reads emits nothing.
C21_MissCounterReset ==
    /\ out.step = "hand" => missedFrames = 0 /\ out.run = 0
    /\ (out.n = 1 /\ ~out.ev.isDetected) => out.step = "lost" /\ out.run > 5
    /\ out.run \in 1..5 => out.n = 0 \/ out.ev.isDetected

\* the sixth tick in a row without a prediction, after a hand had been read,
\* emits the not-detected event
C21_Witness ==
    /\ out.step = "lost"
    /\ out.run = 6
    /\ missedFrames = 6
    /\ pinchHistory # <<>>

\* C22: an accepted tick whose frame has no wrist landmark adds one to the
\* miss counter, pushes nothing onto any window and leaves the latch alone.
C22_MalformedIsMiss ==
    [][NoWristStep =>
         /\ missedFrames' = missedFrames + 1
         /\ posHistory' = posHistory
         /\ ratioHistory' = ratioHistory
         /\ pinchHistory' = pinchHistory
         /\ isCurrentlyOpen' = isCurrentlyOpen]_vars

----------------------------------------------------------------------------
\* the detection loop neither has a request pending nor is inside an
\* invocation or an awaited call
LoopStopped == pc \in {"idle", "stopped"} /\ requests = 0 /\ inflight = 0

\* C23: once GestureController is torn down, at whatever point of the
\* loop's cycle, the detection loop eventually stops scheduling further
\* invocations of itself.
C23_TeardownStops == (~mounted) ~> LoopStopped

\* C24: when a call of estimateHands that was pending at the teardown
\* completes, no GestureEvent is delivered and no stabilizer state changes.
C24_InFlightDiscarded ==
    [][(~mounted /\ pc = "awaiting") =>
          (stabVars' = stabVars /\ out'.n = 0)]_vars

\* C25: across model load, camera restarts, visibility changes and unmount,
\* at most one call of estimateHands is pending and at most one request of
\* the detection loop is scheduled, and never both at once.
C25_SingleInFlight ==
    /\ requests \in 0..1
    /\ inflight \in 0..1
    /\ requests + inflight <= 1

\* a classification is pending, after earlier reads, while the camera is
\* being restarted
C25_Witness ==
    /\ inflight = 1
    /\ requests = 0
    /\ video = "starting"
    /\ pinchHistory # <<>>

\* the stabilizer as it is when the component mounts
FreshStabilizer ==
    /\ ratioHistory = <<>>
    /\ posHistory = <<>>
    /\ pinchHistory = <<>>
    /\ ~isCurrentlyOpen
    /\ missedFrames = 0

\* C26: at the first classification after the camera was unavailable, the
\* stabilizer is in its initial state: windows empty, latch closed, miss
\* counter 0.
C26_CleanRestart ==
    [][(gap /\ pc = "scheduled" /\ pc' = "awaiting") => FreshStabilizer]_vars

----------------------------------------------------------------------------
\* C27: in a frame in which gesture events were processed by handleGesture
\* before the render tick runs, the easing step of that tick uses the
\* target those events produced, never the target from before them.
C27_UpdateBeforeConsume ==
    [][(frame' # frame /\ pending # <<>>) =>
          frame'.target = Applied(Committed, pending).targetMix]_vars

----------------------------------------------------------------------------
\* a step of the detection loop: runDetection was invoked, or the call it
\* awaited settled
DetectionStep == now' # now \/ out' # out

\* a step of the render loop
RenderStep == frame' # frame

\* C28: the stabilizer state (windows, latch, miss counter, last accepted
\* timestamp) changes only in steps of the detection loop; the mix scalars
\* and the closest index change only in render ticks; a render tick changes
\* none of targetMix, isSignatureOpen and isGestureHeld.
C28_SingleWriter ==
    [][/\ stabVars' # stabVars => DetectionStep
       /\ (currentMix' # currentMix \/ closestPhotoRef' # closestPhotoRef)
             => RenderStep
       /\ RenderStep =>
             /\ targetMix' = targetMix
             /\ isSignatureOpen' = isSignatureOpen
             /\ isGestureHeld' = isGestureHeld
             /\ stabVars' = stabVars]_vars

\* a hand has been read and has scattered the tree, and a render tick has
\* eased the mixes away from the formed end and published a closest index
C28_Witness ==
    /\ out.step = "hand"
    /\ pinchHistory # <<>>
    /\ targetMix = CHAOS
    /\ closestPhotoRef >= 0
    /\ currentMix["Ornaments"] < Unit
    /\ frame.dt > 0

----------------------------------------------------------------------------
\* C29: generating a population for a count that is not positive fails and
\* produces no population, so the population in use was always generated
\* for a positive count.
C29_InvalidRejected == ornamentData.count > 0

----------------------------------------------------------------------------
\* C30: from the step in which a pinch opens the overlay until the step in
\* which the hold is released, targetMix never changes, whatever other
\* actions (gesture events, manual commands, upload timers) are interleaved.
C30_TreeFrozenInHold ==
    [][(isGestureHeld /\ isGestureHeld') => targetMix' = targetMix]_vars

----------------------------------------------------------------------------
\* C31: the closest index is -1 at the start and is written only by a
\* render tick of the photo population whose target mix is below 0.5; every
\* other step, a render tick with the target at or above 0.5 included,
\* leaves the published index as it is.
C31_TrackingGate ==
    /\ closestPhotoRef = -1
    /\ [][closestPhotoRef' # closestPhotoRef =>
             (RenderStep /\ 2 * targetMix < 1)]_vars

\* index 1 was published while the tree was scattered, and a later tick with
\* the tree formed and the camera nearest to photo 0 has left it
C31_Witness ==
    /\ closestPhotoRef = 1
    /\ targetMix = FORMED
    /\ frame.target = FORMED
    /\ ~frame.tracked
    /\ frame.cam = 0

----------------------------------------------------------------------------
\* C32: an event emitted for a lost hand has isDetected, isOpen and isPinch
\* false and the cursor at (0,0); an event emitted from a hand that was read
\* has isDetected true; no other event is emitted.
C32_LostPayload ==
    out.n = 1 =>
       /\ out.step \in {"hand", "lost"}
       /\ out.step = "hand" => out.ev.isDetected
       /\ out.step = "lost" =>
             /\ ~out.ev.isDetected
             /\ ~out.ev.isOpen
             /\ ~out.ev.isPinch
             /\ out.ev.position = [x |-> 0, y |-> 0]
       /\ smLast.kind = "gesture" /\ smLast.ev = out.ev

\* a lost event emitted while the pinch window still holds a majority of
\* pinch votes, received by handleGesture
C32_Witness ==
    /\ out.step = "lost"
    /\ out.n = 1
    /\ PinchMajority(pinchHistory)
    /\ ~inputRef.isDetected

----------------------------------------------------------------------------
\* C33: in every reachable state, under any interleaving of gesture events
\* and manual commands, isGestureHeld implies isSignatureOpen.
C33_HoldImpliesOpen == isGestureHeld => isSignatureOpen

----------------------------------------------------------------------------
\* the state that results from everything processed so far, queued
\* updates included, and the closure a handler made from it would hold
Effective == Applied(Committed, pending)

EffectiveClosure ==
    [targetMix |-> Effective.targetMix,
     isSignatureOpen |-> Effective.isSignatureOpen,
     isGestureHeld |-> Effective.isGestureHeld, userImages |-> userImages]

\* C34: every gesture event is evaluated against the interaction state that
\* results from all events and commands processed before it: the values of
\* targetMix, isSignatureOpen and isGestureHeld the handler decides on are
\* never ones that an earlier, already processed event has changed.
C34_NoStaleSnapshot ==
    [][Len(pending') > Len(pending) =>
          Update(Effective, pending'[Len(pending')])
          = Update(Effective,
                   HandleGesture(EffectiveClosure, Effective.targetMix,
                                 closestPhotoRef, smLast'.ev))]_vars

----------------------------------------------------------------------------
----------------------------------------------------------------------------
\* the step handled a not-detected event with the overlay closed and no
\* gesture hold
LostHandled ==
    /\ smLast'.kind = "gesture"
    /\ ~smLast'.ev.isDetected
    /\ ~smLast'.pre.isSignatureOpen
    /\ ~smLast'.pre.isGestureHeld

\* the step handled the event of a detected, open hand
OpenHandled ==
    smLast'.kind = "gesture" /\ smLast'.ev.isDetected /\ smLast'.ev.isOpen

\* C36 as stated: a not-detected event handled with the overlay closed and
\* no gesture hold makes the target FORMED, and the target leaves FORMED
\* only by the event of a detected open hand or by the manual toggle.
C36_LossFormsTree_Original ==
    [][/\ LostHandled => targetMix' = FORMED
       /\ (targetMix = FORMED /\ targetMix' # FORMED) =>
             (OpenHandled \/ smLast'.kind = "toggle")]_vars

\* C36: a not-detected event handled with the overlay closed and no gesture
\* hold makes the target FORMED, and the target leaves FORMED only by the
\* event of a detected open hand, by the manual toggle or by a file upload.
C36_LossFormsTree ==
    [][/\ LostHandled => targetMix' = FORMED
       /\ (targetMix = FORMED /\ targetMix' # FORMED) =>
             (OpenHandled \/ smLast'.kind \in {"toggle", "upload"})]_vars

\* a not-detected event has formed a tree that was scattered, with images
\* uploaded and the overlay closed
C36_Witness ==
    /\ smLast.kind = "gesture"
    /\ ~smLast.ev.isDetected
    /\ smLast.pre.targetMix = CHAOS
    /\ ~smLast.pre.isSignatureOpen
    /\ ~smLast.pre.isGestureHeld
    /\ targetMix = FORMED
    /\ userImages # <<>>

----------------------------------------------------------------------------
\* C37: whenever a pinch opens the overlay, the closest index it used is at
\* least 0 and below the number of user images, so the content shown is one
\* of the images.
C37_OpenedContentValid ==
    (smLast.kind = "gesture" /\ ~smLast.pre.isSignatureOpen /\ isSignatureOpen)
    => /\ smLast.idx >= 0
       /\ smLast.idx < Len(userImages)
       /\ \E i \in DOMAIN userImages : activePhotoUrl = userImages[i]

----------------------------------------------------------------------------
\* C38: once the loop has started and while GestureController is mounted,
\* every invocation, whatever path it takes (video not ready, throttled,
\* zero-size video, no wrist, hand read, miss, exception from estimateHands
\* or from the gesture callback), leaves exactly one next invocation
\* requested: there is always exactly one request pending or one call
\* awaited, never none and never two.
C38_LoopLiveness ==
    (mounted /\ modelState = "loaded") =>
       /\ requests + inflight = 1
       /\ pc = "scheduled" <=> requests = 1
       /\ pc = "awaiting" <=> inflight = 1

\* the gesture callback has thrown after earlier misses, and the next
\* invocation is requested
C38_Witness ==
    /\ mounted
    /\ out.step = "threw"
    /\ pc = "scheduled"
    /\ requests = 1
    /\ Len(pinchHistory) > 1

====
